---- MODULE Spec2Model ----
(***************************************************************************)
(* Autobackup: the SSH orchestration layer.                                *)
(*                                                                         *)
(*   ssh/connection.py  SSHConnection       one interactive shell channel  *)
(*   ssh/session.py     RecursiveSSHSession gateway hop + nested target hop*)
(*   ssh/group.py       SerialRecursiveSSHGroup  the batch over the targets*)
(*                                                                         *)
(* The client is one sequential process (ctl.pc is its position).  The     *)
(* remote side is the interactive shell behind the channel: it consumes    *)
(* the lines the client sent (inq) and emits output (outq), which the      *)
(* client receives in arbitrary pieces.  Text is modelled as a sequence of *)
(* tokens, one per piece of output that a pattern of the code can match.   *)
(*                                                                         *)
(* The commands of the user are TargetCommands without responders and      *)
(* without break_on, run by run_at_target.  A response of a responder is   *)
(* one line: the empty line that follows it (the response ends with a      *)
(* newline and send appends another) goes to the reader of the response.   *)
(***************************************************************************)
EXTENDS Integers, Sequences, FiniteSets, TLC

VARIABLES
    ctl,     \* the client: position, current target/command, results
    chan,    \* SSHConnection.channel of session.gateway: "none" | "open" | "closed"
    chunks,  \* _run_raw: output_chunks (expect: <<output>>)
    ridx,    \* _run_raw: index of the responder whose response was just sent
    inq,     \* lines written to the channel, not yet read by the remote side
    outq,    \* output of the remote side, not yet received by the client
    rem,     \* the remote side: which process reads the terminal, its shells
    gh,      \* history of the run (what was sent where, faults so far)
    fmt      \* CommandFormatter on text: one command formatted, run, decoded

vars == <<ctl, chan, chunks, ridx, inq, outq, rem, gh, fmt>>

----------------------------------------------------------------------------
(* Bounds of the model *)

NTargets == 2     \* targets of the group
NCmds == 1        \* commands handed to run_all_targets
MaxCmds == 2      \* longest list with an element that is no command
MaxCode == 255    \* largest exit status of a command
TickLimit == 2    \* timeout of expect and of run, in turns of their loops
MaxHeard == 3     \* tokens the remote side sends during one timed call
MaxFaults == 2    \* waits that exceed their timeout, and dropped nested hops
MaxInq == 2       \* lines in flight towards the remote side
MaxDepth == 1     \* nested ssh hops the remote side lets through
MaxOutq == 4      \* tokens of output in flight towards the client

----------------------------------------------------------------------------
(* ssh/base.py, ssh/session.py: constants *)

UNSET == -9999
EXIT_CODE_NOT_FOUND == -1
BREAK_TRIGGERED == -2

SSH_TARGET_CONNECTION_EXITCODE == "__SSH_TARGET_CONNECTION_EXITCODE"
TARGET_SESSION_EXITCODE_DELIMITER == "__TARGET_EXITCODE"
DEFAULT_EXITCODE_DELIMITER == "__EXITCODE"
TARGET_SESSION_VAR == "__TARGET_SESSION"
GATEWAY_SESSION_VAR == "__GATEWAY_SESSION"

SshFailCode == 255   \* exit status of an ssh client that did not log in
ExitCodes == {0, 1}  \* exit statuses of a user command

----------------------------------------------------------------------------
(* Output tokens.  t: "mk" an exit marker <d>:<c>; "ex" the text           *)
(* "exists: <c>"; "pr" a shell prompt of shell d; "ask" an interactive     *)
(* question of ssh (d = "fp" host key, "pw" password).                     *)

Mk(d, c) == [t |-> "mk", d |-> d, c |-> c]
Ex(b) == [t |-> "ex", d |-> "", c |-> b]
Pr(s) == [t |-> "pr", d |-> s, c |-> 0]
Ask(q) == [t |-> "ask", d |-> q, c |-> 0]

(* Lines the client writes.  k: "setenv" v; "probe" v (echo exists: $?v);   *)
(* "ssh" to target n; "cmd" command n of the user; "exit"; "resp" the       *)
(* response v of a responder.  d is the delimiter of the trailing           *)
(* "; echo <d>:$?" ("" for a response, which has none).                     *)
Line(k, v, n, d) == [k |-> k, v |-> v, n |-> n, d |-> d]

Last(s) == s[Len(s)]
Front(s) == SubSeq(s, 1, Len(s) - 1)
DropN(s, n) == SubSeq(s, n + 1, Len(s))
Take(s, n) == SubSeq(s, 1, n)

RECURSIVE Join(_)
Join(ss) == IF ss = <<>> THEN <<>> ELSE Head(ss) \o Join(Tail(ss))

----------------------------------------------------------------------------
(* The remote side *)

TopEnv(r) == IF r.nest = <<>> THEN r.env ELSE Last(r.nest).env
TopPrompt(r) == IF r.nest = <<>> THEN Pr("gw") ELSE Pr("tgt")

SetTopEnv(r, v) ==
    IF r.nest = <<>>
    THEN [r EXCEPT !.env = @ \cup {v}]
    ELSE [r EXCEPT !.nest[Len(r.nest)].env = @ \cup {v}]

\* the shell after the nested hop ended: the shell below runs the rest of
\* its line "ssh ...; echo <d>:$?" and prompts again
PopHop(r, code) ==
    LET below == [r EXCEPT !.nest = Front(r.nest)]
    IN  [r |-> below, out |-> <<Mk(Last(r.nest).d, code), TopPrompt(below)>>]

\* A csh-like shell (setenv, $?VAR) reads one line.  c is the exit status of
\* a user command, or of setenv (a shell without that builtin leaves the
\* variable unset).  Result: the remote side afterwards and what it printed.
ShellRun(r, l, c) ==
    CASE l.k = "setenv" ->
            [r |-> IF c = 0 THEN SetTopEnv(r, l.v) ELSE r,
             out |-> <<Mk(l.d, c), TopPrompt(r)>>]
      [] l.k = "probe" ->
            [r |-> r,
             out |-> <<Ex(IF l.v \in TopEnv(r) THEN 1 ELSE 0), Mk(l.d, 0), TopPrompt(r)>>]
      [] l.k = "ssh" ->
            IF Len(r.nest) < MaxDepth
            THEN [r |-> [r EXCEPT !.fg = "auth", !.ah = l.n, !.ad = l.d,
                                  !.asked = {}, !.wait = ""],
                  out |-> <<>>]
            ELSE [r |-> r, out |-> <<Mk(l.d, SshFailCode), TopPrompt(r)>>]
      [] l.k = "cmd" ->
            [r |-> r, out |-> <<Mk(l.d, c), TopPrompt(r)>>]
      [] l.k = "exit" ->
            \* csh runs the rest of the line before it leaves
            IF r.nest = <<>>
            THEN [r |-> [r EXCEPT !.fg = "dead"], out |-> <<Mk(l.d, 0)>>]
            ELSE [r |-> PopHop(r, 0).r, out |-> <<Mk(l.d, 0)>> \o PopHop(r, 0).out]
      [] OTHER ->
            \* the text of a response typed at a shell: no such command
            [r |-> r, out |-> <<TopPrompt(r)>>]

NoRemote ==
    [fg |-> "none", nest |-> <<>>, env |-> {}, ah |-> 0, ad |-> "",
     asked |-> {}, wait |-> ""]

FreshGateway == [NoRemote EXCEPT !.fg = "shell"]

----------------------------------------------------------------------------
(* ssh/exceptions.py: the exception classes and what an except clause      *)
(* catches                                                                 *)

IsInstance(e, cls) ==
    \/ e = cls
    \/ cls = "TimeoutError" /\ e \in {"PromptTimeoutError", "CommandTimeoutError"}
    \/ cls = "ValueError" /\ e = "InvalidTargetCommandError"
    \/ cls = "Exception"

----------------------------------------------------------------------------
(* ssh/connection.py: what the patterns of _run_raw and expect match       *)

\* exitcode_pattern rf"{exitcode_delimiter}:(\d+)": none of the three
\* delimiters is a substring of another one, and the echo of the command
\* ("...:$?") has no digits
HasMarker(chunk, d) ==
    \E i \in 1..Len(chunk) : chunk[i].t = "mk" /\ chunk[i].d = d

\* DEFAULT_SHELL_PROMPT_PATTERN, handed by the callers for the gateway and
\* for the target prompt alike: it matches the prompt of either shell
MatchesPrompt(chunk) ==
    \E i \in 1..Len(chunk) : chunk[i].t = "pr"

\* responder._compiled_regex.search(output_chunks[-1])
ResponderMatches(q, chunk) ==
    \E i \in 1..Len(chunk) : chunk[i].t = "ask" /\ chunk[i].d = q

\* the for loop over the responders, from responder number `from` on: the
\* first one that matches the chunk, 0 if none does
FirstMatch(rs, chunk, from) ==
    LET ms == {i \in from..Len(rs) : ResponderMatches(rs[i], chunk)}
    IN  IF ms = {} THEN 0 ELSE CHOOSE i \in ms : \A j \in ms : i <= j

(* ssh/formatter.py: extract_exit_code.  re.search finds the first marker; *)
(* the clean output is what precedes it.                                   *)
FirstMarker(output, d) ==
    LET ms == {i \in 1..Len(output) : output[i].t = "mk" /\ output[i].d = d}
    IN  IF ms = {} THEN 0 ELSE CHOOSE i \in ms : \A j \in ms : i <= j

extract_exit_code(output, d) ==
    LET m == FirstMarker(output, d)
    IN  IF m = 0
        THEN [found |-> FALSE, code |-> EXIT_CODE_NOT_FOUND, clean |-> output]
        ELSE [found |-> TRUE, code |-> output[m].c, clean |-> Take(output, m - 1)]

\* (variant: the exit code is looked for in the last chunk only)
RunResult_last_chunk(chs, exit_code, d) ==
    LET x == extract_exit_code(Last(chs), d)
    IN  IF exit_code = UNSET
        THEN [output |-> x.clean, code |-> x.code]
        ELSE [output |-> Join(chs), code |-> exit_code]

\* _run_raw, lines 278-287: the pair it returns
RunResult(chs, exit_code, d) ==
    LET full == Join(chs)
        x == extract_exit_code(full, d)
    IN  IF exit_code = UNSET
        THEN [output |-> x.clean, code |-> x.code]
        ELSE [output |-> full, code |-> exit_code]

\* _verify_env_variable: "exists: 0" in output
Exists0(output) ==
    \E i \in 1..Len(output) : output[i].t = "ex" /\ output[i].c = 0

\* channel.recv_ready() / channel.recv(n): how much of the output in flight
\* has arrived: any part of what the remote side has sent so far, maybe none
Arrived(q) == 0..Len(q)


----------------------------------------------------------------------------
(* The call sites of SSHConnection.run in ssh/session.py (ctl.op):         *)
(*   gwSet        establish_gateway_connection, line 171: setenv           *)
(*   gwVerify     establish_gateway_connection, line 177                   *)
(*   preVerify    establish_target_host_connection, line 202               *)
(*   ssh          establish_target_host_connection, line 214               *)
(*   tSet         establish_target_host_connection, line 238: setenv       *)
(*   tVerify      establish_target_host_connection, line 248               *)
(*   cmdVerify    run_at_target & co., lines 315, 352, 392                 *)
(*   cmd          run_at_target & co., lines 317, 354, 394                 *)
(*   exitVerifyT  exit_target_session -> run_at_target, line 315           *)
(*   exitCmd      exit_target_session -> run_at_target, line 317           *)
(*   exitVerifyGw exit_target_session, line 422                            *)

VerifyGwOps == {"gwVerify", "preVerify", "exitVerifyGw"}
VerifyTgtOps == {"tVerify", "cmdVerify", "exitVerifyT"}

\* _verify_env_variable: cmd = f"echo exists: $?{var_name}", run with the
\* default delimiter
ProbeLine(v) == Line("probe", v, 0, DEFAULT_EXITCODE_DELIMITER)

\* the line each call site sends (CommandFormatter.regular_command appends
\* "; echo <delimiter>:$?")
OpLine(c) ==
    CASE c.op = "gwSet" -> Line("setenv", GATEWAY_SESSION_VAR, 0, DEFAULT_EXITCODE_DELIMITER)
      [] c.op \in VerifyGwOps -> ProbeLine(GATEWAY_SESSION_VAR)
      [] c.op = "ssh" -> Line("ssh", "", c.ti, SSH_TARGET_CONNECTION_EXITCODE)
      [] c.op = "tSet" -> Line("setenv", TARGET_SESSION_VAR, 0, TARGET_SESSION_EXITCODE_DELIMITER)
      [] c.op \in VerifyTgtOps -> ProbeLine(TARGET_SESSION_VAR)
      [] c.op = "cmd" -> Line("cmd", "", c.ci, TARGET_SESSION_EXITCODE_DELIMITER)
      [] c.op = "exitCmd" -> Line("exit", "", 0, TARGET_SESSION_EXITCODE_DELIMITER)

\* responders of the call: the ssh call passes
\* [add_ssh_to_hostfile_responder, password_responder]
OpResponders(c) == IF c.op = "ssh" THEN <<"fp", "pw">> ELSE <<>>

\* ssh/commands.py: the two command classes; "other" is any other object
\* a TargetBashScript as the class makes it by default: run_as_root False
UserScript == "TargetBashScript, run_as_root = False"

\* a TargetCommand with a break_on pattern: here the pattern of a prompt
BreakCommand == "TargetCommand, break_on = shell_prompt_pattern"

CommandClasses == {"TargetCommand", "TargetBashScript", UserScript, BreakCommand}

\* break_on of the call: the ssh call passes shell_prompt_pattern, the call
\* of a command passes command.break_on
OpBreakOn(c) ==
    \/ c.op = "ssh"
    \/ c.op = "cmd" /\ c.commands[c.ci] = BreakCommand

\* the lists handed to run_all_targets: NCmds commands, or up to MaxCmds
\* elements one of which is no command, or a script not run as root
CommandLists ==
    {cs \in UNION {[1..n -> {"TargetCommand", "other"}] : n \in 1..MaxCmds} :
        (\A i \in 1..Len(cs) : cs[i] \in CommandClasses) => Len(cs) = NCmds}
    \cup {<<UserScript>>}

StartRun(c, o) == [c EXCEPT !.pc = "send", !.op = o]

Escape(c, e) == [c EXCEPT !.pc = "raised", !.exc = e]

TargetExecutionResult(s, o, e) == [success |-> s, outputs |-> o, error |-> e]

\* run_all_targets, lines 238-244: the result of run_target is stored, and
\* a target-level session defect makes it call session.close()
run_all_targets_store(c, r) ==
    LET c1 == [c EXCEPT !.results = Append(@, r)]
    IN  IF r.error \in {"TargetSessionInactiveError", "TargetSSHConnectionError"}
        THEN [StartRun(c1, "exitVerifyT") EXCEPT !.ctx = "close"]
        ELSE [c1 EXCEPT !.pc = "next"]

\* (variant: the for loop goes on after a failed result without closing)
backup_generator_store_keep(c, r) ==
    [c EXCEPT !.results = Append(@, r), !.pc = "next"]

\* features/backups/runner.py, backup_generator, lines 300-311: the result
\* is yielded; after a failed one serial_ssh_group.close() closes the
\* gateway connection before the next target
backup_generator_store(c, r) ==
    LET c1 == [c EXCEPT !.results = Append(@, r)]
    IN  IF ~r.success
        THEN [c1 EXCEPT !.pc = "gwclose", !.ctx = "group_close"]
        ELSE [c1 EXCEPT !.pc = "next"]

\* run_target returns r to the loop that called it
run_target_return(c, r) ==
    IF c.drv = "backup_generator"
    THEN backup_generator_store(c, r)
    ELSE run_all_targets_store(c, r)

\* run_target raises e.  _run_and_extract_backup_path, lines 224-240, turns
\* the two gateway errors into a failed result; anything else leaves
\* backup_generator through its finally clause, lines 313-317
run_target_raise(c, e) ==
    CASE c.drv # "backup_generator" -> Escape(c, e)
      [] e \in {"GatewaySessionInactiveError", "GatewaySSHConnectionError"} ->
            backup_generator_store(c, TargetExecutionResult(FALSE, <<>>, e))
      [] OTHER -> [c EXCEPT !.pc = "gwclose", !.ctx = "finally", !.exc = e]

\* (variant: run_target without the check of its commands)
run_target_validate_none(c) == TRUE

\* run_target, lines 175-180: every element of commands is a TargetCommand
\* or a TargetBashScript
run_target_validate(c) ==
    \A i \in 1..Len(c.commands) : c.commands[i] \in CommandClasses

\* run_target with the gateway connection error handled like a target
\* connection error: recorded as the failed result of the target
run_target_except_swallow(c, e) ==
    CASE e = "GatewaySessionInactiveError" -> Escape(c, e)
      [] e \in {"GatewaySSHConnectionError", "TargetSSHConnectionError"} ->
            run_all_targets_store(c, TargetExecutionResult(FALSE, <<>>, e))
      [] e \in {"TargetSessionInactiveError", "CommandTimeoutError",
                "ExitCodeNotFoundError"} ->
            run_all_targets_store(c, TargetExecutionResult(FALSE, c.tout, e))
      [] OTHER -> Escape(c, e)

\* run_target, lines 202-223: the except clauses around connect, the
\* commands and exit_target_session
run_target_except(c, e) ==
    CASE e \in {"GatewaySSHConnectionError", "GatewaySessionInactiveError"} ->
            run_target_raise(c, e)
      [] e = "TargetSSHConnectionError" ->
            run_target_return(c, TargetExecutionResult(FALSE, <<>>, e))
      [] e = "TargetSessionInactiveError" ->
            run_target_return(c, TargetExecutionResult(FALSE, c.tout, e))
      [] e \in {"CommandTimeoutError", "ExitCodeNotFoundError"} ->
            run_target_return(c, TargetExecutionResult(FALSE, c.tout, e))
      [] OTHER -> run_target_raise(c, e)

\* an exception leaves a method of the session: run_target handles it; in
\* session.close(), called by run_all_targets, nothing does
Propagate(c, e) ==
    IF c.ctx = "run_target" THEN run_target_except(c, e) ELSE Escape(c, e)

\* verify_gateway_session_token / verify_target_session_token: the
\* RuntimeError of _verify_env_variable (and any other one) becomes the
\* SessionInactive error of the hop
verify_session_token_except(c, e) ==
    IF IsInstance(e, "RuntimeError")
    THEN IF c.op \in VerifyGwOps THEN "GatewaySessionInactiveError"
                                 ELSE "TargetSessionInactiveError"
    ELSE e

\* establish_target_host_connection: its three try blocks
establish_target_host_connection_except(c, e) ==
    CASE c.op = "preVerify" ->
            IF IsInstance(e, "RuntimeError") THEN "TargetSSHConnectionError" ELSE e
      [] c.op = "tSet" ->
            IF IsInstance(e, "TimeoutError") \/ IsInstance(e, "CommandTimeoutError")
            THEN "TargetSSHConnectionError" ELSE e
      [] c.op = "tVerify" ->
            IF IsInstance(e, "TargetSessionInactiveError")
            THEN "TargetSSHConnectionError" ELSE e
      [] OTHER -> e

\* (variant: the failed connect reported as an inactive session)
establish_gateway_connection_except_inactive(e) ==
    IF IsInstance(e, "Exception") THEN "GatewaySessionInactiveError" ELSE e

\* establish_gateway_connection, lines 156-164: whatever connect raises
establish_gateway_connection_except(e) ==
    IF IsInstance(e, "Exception") THEN "GatewaySSHConnectionError" ELSE e

\* (variant: connect lets the TimeoutError of expect pass)
connect_except_pass(e) == e

\* SSHConnection.connect, lines 75-80: except TimeoutError as e: raise
\* PromptTimeoutError(...) from e
connect_except(e) ==
    IF IsInstance(e, "TimeoutError") THEN "PromptTimeoutError" ELSE e

\* exception e is raised inside the call at c.op; the error that
\* establish_gateway_connection raises "from e" keeps e as its cause
OnRaise(c0, e) ==
    LET c == IF c0.op = "connect" THEN [c0 EXCEPT !.cause = e] ELSE c0
        e1 == CASE c.op \in VerifyGwOps \cup VerifyTgtOps ->
                      verify_session_token_except(c, e)
                [] c.op = "connect" -> establish_gateway_connection_except(e)
                [] OTHER -> e
        e2 == establish_target_host_connection_except(c, e1)
    IN  IF c.op = "exitVerifyT" /\ IsInstance(e2, "TargetSessionInactiveError")
        THEN StartRun(c, "exitVerifyGw")   \* exit_target_session: except ...: pass
        ELSE Propagate(c, e2)

\* (variant: every output is appended to target_outputs as it is produced)
run_target_dispatch_append(c, i) ==
    CASE c.commands[i] \notin CommandClasses ->
            run_target_except(c, "AttributeError")
      [] c.commands[i] = UserScript ->
            run_target_except([c EXCEPT !.ci = i, !.tout = c.acc],
                              "NotImplementedError")
      [] OTHER -> [StartRun(c, "cmdVerify") EXCEPT !.ci = i, !.tout = c.acc]

\* run_target, lines 187-192: command i of the list goes to _run_on_target
\* or to _run_bash_script_on_target, which read its attributes
run_target_dispatch(c, i) ==
    CASE c.commands[i] \notin CommandClasses ->
            run_target_except(c, "AttributeError")
      [] c.commands[i] = UserScript ->
            \* _run_bash_script_on_target, lines 144-156
            run_target_except([c EXCEPT !.ci = i], "NotImplementedError")
      [] OTHER -> [StartRun(c, "cmdVerify") EXCEPT !.ci = i]

\* a verification found the variable set: what the caller does next
AfterVerify(c) ==
    CASE c.op = "gwVerify" -> StartRun(c, "preVerify")
      [] c.op = "preVerify" -> StartRun(c, "ssh")
      [] c.op = "tVerify" ->
            IF Len(c.commands) = 0
            THEN [StartRun(c, "exitVerifyT") EXCEPT
                     !.result = TargetExecutionResult(TRUE, <<>>, "none")]
            ELSE run_target_dispatch(c, 1)
      [] c.op = "cmdVerify" -> StartRun(c, "cmd")
      [] c.op = "exitVerifyT" -> StartRun(c, "exitCmd")
      [] c.op = "exitVerifyGw" ->
            IF c.ctx = "run_target"
            THEN run_target_return(c, c.result)
            ELSE [c EXCEPT !.pc = "gwclose"]   \* close(): self.gateway.close()

\* (variant: run_target returns its result without exit_target_session)
run_target_collect_return(c, output, code) ==
    LET acc2 == Append(c.acc, <<output, code>>)
    IN  IF c.ci < Len(c.commands)
        THEN run_target_dispatch([c EXCEPT !.acc = acc2], c.ci + 1)
        ELSE run_target_return([c EXCEPT !.acc = <<>>, !.tout = acc2],
                               TargetExecutionResult(TRUE, acc2, "none"))

\* run_target, lines 187-200: one more output of the list comprehension;
\* after the last one the result is built and exit_target_session is called
run_target_collect(c, output, code) ==
    LET acc2 == Append(c.acc, <<output, code>>)
    IN  IF c.ci < Len(c.commands)
        THEN run_target_dispatch([c EXCEPT !.acc = acc2], c.ci + 1)
        ELSE [StartRun(c, "exitVerifyT") EXCEPT
                 !.acc = <<>>, !.tout = acc2,
                 !.result = TargetExecutionResult(TRUE, acc2, "none")]

\* (variant: a command that did not exit with 0 ends the sequence)
run_on_target_checked(c, output, code) ==
    IF code # 0
    THEN run_target_except(c, "ExitCodeNotFoundError")
    ELSE run_target_collect(c, output, code)

\* _run_on_target, lines 111-123: what run_at_target returned is the value
\* of the element of the list comprehension, whatever the exit code
run_on_target(c, output, code) == run_target_collect(c, output, code)

\* establish_target_host_connection without lines 232-245: the target
\* token is verified but was not set
OnReturn_skip_set(c, output, code) ==
    CASE c.op = "gwSet" -> StartRun(c, "gwVerify")
      [] c.op \in VerifyGwOps \cup VerifyTgtOps ->
            IF Exists0(output) THEN OnRaise(c, "RuntimeError") ELSE AfterVerify(c)
      [] c.op = "ssh" ->
            IF code # BREAK_TRIGGERED
            THEN OnRaise(c, "TargetSSHConnectionError")
            ELSE StartRun(c, "tVerify")
      [] c.op = "tSet" -> StartRun(c, "tVerify")
      [] c.op = "cmd" -> run_on_target(c, output, code)
      [] c.op = "exitCmd" -> StartRun(c, "exitVerifyGw")

\* the call at c.op returned (output, exit_code)
OnReturn(c, output, code) ==
    CASE c.op = "gwSet" -> StartRun(c, "gwVerify")
      [] c.op \in VerifyGwOps \cup VerifyTgtOps ->
            IF Exists0(output) THEN OnRaise(c, "RuntimeError") ELSE AfterVerify(c)
      [] c.op = "ssh" ->
            IF code # BREAK_TRIGGERED
            THEN OnRaise(c, "TargetSSHConnectionError")
            ELSE StartRun(c, "tSet")
      [] c.op = "tSet" -> StartRun(c, "tVerify")
      [] c.op = "cmd" -> run_on_target(c, output, code)
      [] c.op = "exitCmd" -> StartRun(c, "exitVerifyGw")


----------------------------------------------------------------------------
(* History of the run, for the properties below *)

\* the last three events on the channel: lines sent, hops established
Push(log, ev) ==
    IF Len(log) < 3 THEN Append(log, ev) ELSE Append(Tail(log), ev)

EventOf(l) == <<l.k, l.v>>

\* who reads the terminal: "gw", the target number of the nested shell, ...
Reader(r) ==
    CASE r.fg = "shell" /\ r.nest = <<>> -> "gw"
      [] r.fg = "shell" /\ r.nest # <<>> -> ToString(Last(r.nest).h)
      [] OTHER -> r.fg

\* the result that an action appended to the results, with the call site
\* where its error arose
Recorded(c1, c2, g) ==
    IF Len(c2.results) > Len(c1.results)
    THEN [g EXCEPT !.at = Append(@, IF Last(c2.results).success THEN "" ELSE c1.op)]
    ELSE g

\* a line is taken from inq: the line of the last command sent and the
\* probe of the last verification move up;
\* when a shell runs it, ans tells whether that shell has the variable set
\* (ssh reading it as an answer to its question prints no answer)
Consumed(g, shell, ans) ==
    LET g1 == [g EXCEPT !.own = IF @ > 0 THEN @ - 1 ELSE 0]
    IN  CASE g.pend > 1 -> [g1 EXCEPT !.pend = @ - 1]
          [] g.pend = 1 /\ shell ->
                [g1 EXCEPT !.pend = 0, !.ver.answered = TRUE, !.ver.ans = ans]
          [] g.pend = 1 /\ ~shell -> [g1 EXCEPT !.pend = 0]
          [] OTHER -> g1

InitCtl ==
    [drv |-> "run_all_targets", commands |-> [i \in 1..NCmds |-> "TargetCommand"],
     targets |-> NTargets,
     pc |-> "next", op |-> "none", ctx |-> "run_target", ti |-> 0, ci |-> 0,
     t |-> 0, cause |-> "none", secrets |-> 0..NTargets,
     acc |-> <<>>, tout |-> <<>>,
     result |-> TargetExecutionResult(TRUE, <<>>, "none"),
     results |-> <<>>, exc |-> "none"]

\* no CommandTimeoutError since the last command was sent
NoTerr == [raised |-> FALSE, carried |-> <<>>, partial |-> <<>>]

\* no call has returned since the last line was sent
NoRet == [done |-> FALSE, code |-> UNSET, marker |-> FALSE, brk |-> FALSE]

\* CommandFormatter is not in use
NoFmt == [pc |-> "none"]

InitGh ==
    [faults |-> 0, log |-> <<>>, sentTo |-> "none", sshExit |-> {},
     at |-> <<>>, conn |-> 0, pend |-> 0,
     ver |-> [op |-> "none", done |-> FALSE, passed |-> FALSE,
              answered |-> FALSE, ans |-> 0],
     closed |-> FALSE, closedIn |-> "", own |-> 0, early |-> FALSE,
     quiet |-> {}, resent |-> FALSE, terr |-> NoTerr, ret |-> NoRet]

Init ==
    /\ ctl \in {[InitCtl EXCEPT !.commands = cs] : cs \in CommandLists}
    /\ chan = "none"
    /\ chunks = <<>>
    /\ ridx = 0
    /\ inq = <<>>
    /\ outq = <<>>
    /\ rem = NoRemote
    /\ gh = InitGh
    /\ fmt = NoFmt

----------------------------------------------------------------------------
(* ssh/group.py: run_all_targets, run_target, connect *)

\* (variant: the gateway is connected anew for every target)
establish_gateway_connection_always(ch) == [op |-> "connect", pc |-> "connect"]

\* establish_gateway_connection, lines 152-177: everything it does is inside
\* "if channel is None or channel.closed"; with an open channel the first
\* call on the channel is the one of establish_target_host_connection
establish_gateway_connection(ch) ==
    IF ch = "open" THEN [op |-> "preVerify", pc |-> "send"]
    ELSE [op |-> "connect", pc |-> "connect"]

\* run_all_targets: the next target of the for loop; run_target checks its
\* commands (lines 175-180, outside the try), then run_target ->
\* connect -> session.connect -> establish_gateway_connection: the transport
\* connect is skipped when the channel is open
NextTarget ==
    /\ ctl.pc = "next"
    /\ ctl.ti < ctl.targets
    /\ ctl' = IF run_target_validate(ctl)
              THEN [ctl EXCEPT !.ti = @ + 1, !.ci = 0, !.acc = <<>>, !.tout = <<>>,
                               !.ctx = "run_target",
                               !.op = establish_gateway_connection(chan).op,
                               !.pc = establish_gateway_connection(chan).pc]
              ELSE run_target_raise([ctl EXCEPT !.ti = @ + 1],
                                    "InvalidTargetCommandError")
    /\ UNCHANGED <<chan, chunks, ridx, inq, outq, rem, gh>>
    /\ UNCHANGED fmt

\* run_all_targets: return results; backup_generator: the for loop is
\* over and the finally clause closes the group
ReturnResults ==
    /\ ctl.pc = "next"
    /\ ctl.ti = ctl.targets
    /\ ctl' = IF ctl.drv = "backup_generator"
              THEN [ctl EXCEPT !.pc = "gwclose", !.ctx = "finally"]
              ELSE [ctl EXCEPT !.pc = "done"]
    /\ UNCHANGED <<chan, chunks, ridx, inq, outq, rem, gh>>
    /\ UNCHANGED fmt

----------------------------------------------------------------------------
(* ssh/connection.py: connect, expect, close *)

\* SSHConnection.connect, lines 58-72: the transport connect and the new
\* shell, which prints its banner and prompt
ConnectOk ==
    /\ ctl.pc = "connect"
    /\ chan' = "open"
    /\ rem' = FreshGateway
    /\ inq' = <<>>
    /\ outq' = <<Pr("gw")>>
    /\ chunks' = <<<<>>>>
    /\ ctl' = [ctl EXCEPT !.pc = "expect"]
    /\ UNCHANGED <<ridx, gh>>
    /\ UNCHANGED fmt

\* SSHConnection.connect raises (client.connect): establish_gateway_connection
\* wraps it, lines 163-164
ConnectFail ==
    /\ ctl.pc = "connect"
    /\ ctl' = OnRaise(ctl, "SSHException")
    /\ gh' = Recorded(ctl, ctl', gh)
    /\ UNCHANGED <<chan, chunks, ridx, inq, outq, rem>>
    /\ UNCHANGED fmt

\* SSHConnection.expect, lines 159-170, called by connect: one poll.  The
\* pattern is searched only after a recv.
Expect ==
    /\ ctl.pc = "expect"
    /\ outq # <<>>
    /\ \E n \in Arrived(outq) :
          LET output == chunks[1] \o Take(outq, n)
          IN  /\ outq' = DropN(outq, n)
              /\ IF MatchesPrompt(output)
                 THEN /\ ctl' = StartRun(ctl, "gwSet")
                      /\ chunks' = <<output>>
                      /\ gh' = [gh EXCEPT !.log = Push(@, <<"connect", "">>),
                                          !.conn = ctl.ti]
                 ELSE /\ ctl' = ctl
                      /\ chunks' = <<output>>
                      /\ gh' = gh
    /\ UNCHANGED <<chan, ridx, inq, rem>>
    /\ UNCHANGED fmt

\* SSHConnection.expect raises TimeoutError: connect makes it a
\* PromptTimeoutError, establish_gateway_connection a GatewaySSHConnectionError
ExpectTimeout ==
    /\ ctl.pc = "expect"
    /\ gh.faults < MaxFaults
    /\ ctl' = OnRaise(ctl, connect_except("TimeoutError"))
    /\ chunks' = <<>>
    /\ gh' = Recorded(ctl, ctl', [gh EXCEPT !.faults = @ + 1])
    /\ UNCHANGED <<chan, ridx, inq, outq, rem>>
    /\ UNCHANGED fmt

\* (variant: close without the guards on channel and client)
SSHConnection_close_unguarded(ch) ==
    IF ch = "none"
    THEN [chan |-> "none", exc |-> "AttributeError"]
    ELSE [chan |-> "closed", exc |-> "none"]

\* SSHConnection.close, lines 174-181: a channel that exists is closed (a
\* closed one stays closed), then the client; nothing to do without them
SSHConnection_close(ch) ==
    [chan |-> IF ch = "none" THEN "none" ELSE "closed", exc |-> "none"]

\* RecursiveSSHSession.close, line 432, and SerialRecursiveSSHGroup.close,
\* line 254: self.gateway.close()
GatewayClose ==
    /\ ctl.pc = "gwclose"
    /\ chan' = SSHConnection_close(chan).chan
    /\ rem' = NoRemote
    /\ inq' = <<>>
    /\ outq' = <<>>
    /\ ctl' = CASE SSHConnection_close(chan).exc # "none" ->
                      Escape(ctl, SSHConnection_close(chan).exc)
                [] ctl.ctx = "finally" ->
                      [ctl EXCEPT !.pc = IF ctl.exc = "none" THEN "done" ELSE "raised"]
                [] OTHER -> [ctl EXCEPT !.pc = "next", !.ctx = "run_target"]
    /\ gh' = [gh EXCEPT !.pend = 0, !.own = 0, !.closed = TRUE, !.closedIn = chan]
    /\ UNCHANGED <<chunks, ridx>>
    /\ UNCHANGED fmt


----------------------------------------------------------------------------
(* ssh/connection.py: _run_raw *)

\* the line sent is logged; a verification starts to wait for its answer
Sent(g, c, l, q) ==
    LET g1 == [g EXCEPT !.log = Push(@, EventOf(l)), !.sentTo = Reader(rem),
                        !.own = Len(q), !.quiet = {}, !.resent = FALSE,
                        !.terr = NoTerr, !.ret = NoRet]
    IN  IF c.op \in VerifyGwOps \cup VerifyTgtOps
        THEN [g1 EXCEPT !.pend = Len(q),
                        !.ver = [op |-> c.op, done |-> FALSE, passed |-> FALSE,
                                 answered |-> FALSE, ans |-> 0]]
        ELSE g1

\* the exit codes a marker can carry
ExitStatuses == ExitCodes \cup {SshFailCode}

\* the call returned: a verification has its verdict, a hop is established;
\* early: it returned a marker's exit code while the line it had sent was
\* still unread by the remote side; ret: the exit code returned, and whether
\* the chunk under test when the loop ended held the marker, the prompt
Returned(g, c, r, tested) ==
    LET g0 == [g EXCEPT !.early = g.own > 0 /\ r.code \in ExitStatuses,
                        !.quiet = {}, !.resent = FALSE,
                        !.ret = [done |-> TRUE, code |-> r.code,
                                 marker |-> HasMarker(tested, OpLine(c).d),
                                 brk |-> OpBreakOn(c) /\ MatchesPrompt(tested)]]
        g1 == IF c.op \in VerifyGwOps \cup VerifyTgtOps
              THEN [g0 EXCEPT !.ver.done = TRUE, !.ver.passed = ~Exists0(r.output)]
              ELSE g0
    IN  IF c.op = "ssh" /\ r.code = BREAK_TRIGGERED
        THEN [g1 EXCEPT !.log = Push(@, <<"break", "">>)]
        ELSE g1

\* lines 219-233: ensure_channel_ready, send, flush(bytes_sent): what has
\* arrived by now is read and dropped
RunSend ==
    /\ ctl.pc = "send"
    /\ IF chan # "open"
       THEN /\ ctl' = OnRaise(ctl, "RuntimeError")
            /\ gh' = Recorded(ctl, ctl', gh)
            /\ UNCHANGED <<chan, chunks, ridx, inq, outq, rem>>
       ELSE /\ Len(inq) < MaxInq
            /\ inq' = Append(inq, OpLine(ctl))
            /\ \E n \in Arrived(outq) : outq' = DropN(outq, n)
            /\ chunks' = << <<>> >>
            /\ ridx' = 0
            /\ ctl' = [ctl EXCEPT !.pc = "loop"]
            /\ gh' = Sent(gh, ctl, OpLine(ctl), inq')
            /\ UNCHANGED <<chan, rem>>
    /\ UNCHANGED fmt

\* lines 271-287: the final flush, the exit code, the return to the caller
RunFinish(chs, q, exit_code) ==
    IF chan # "open"
    THEN /\ ctl' = OnRaise(ctl, "RuntimeError")
         /\ gh' = Recorded(ctl, ctl', gh)
         /\ chunks' = <<>>
         /\ ridx' = 0
         /\ outq' = q
         /\ UNCHANGED <<chan, inq, rem>>
    ELSE \E n \in Arrived(q) :
            LET chs2 == IF n > 0 THEN Append(chs, Take(q, n)) ELSE chs
                r == RunResult(chs2, exit_code, OpLine(ctl).d)
            IN  /\ ctl' = OnReturn(ctl, r.output, r.code)
                /\ gh' = Recorded(ctl, ctl', Returned(gh, ctl, r, Last(chs)))
                /\ chunks' = <<>>
                /\ ridx' = 0
                /\ outq' = DropN(q, n)
                /\ UNCHANGED <<chan, inq, rem>>

\* lines 249-269: the responders from number `from` on, then the exit
\* marker, then break_on, all against output_chunks[-1]
RunChecks(chs, q, from) ==
    LET m == FirstMatch(OpResponders(ctl), Last(chs), from)
        \* the responders answered since output last arrived
        quiet == IF Len(q) < Len(outq) THEN {} ELSE gh.quiet
    IN  IF m # 0
        THEN \* self.send(responder.response, wait=0.5)
             IF chan # "open"
             THEN /\ ctl' = OnRaise(ctl, "RuntimeError")
                  /\ gh' = Recorded(ctl, ctl', gh)
                  /\ chunks' = <<>>
                  /\ ridx' = 0
                  /\ outq' = q
                  /\ UNCHANGED <<chan, inq, rem>>
             ELSE /\ Len(inq) < MaxInq
                  /\ inq' = Append(inq, Line("resp", OpResponders(ctl)[m], 0, ""))
                  /\ ctl' = [ctl EXCEPT !.pc = "respflush"]
                  /\ ridx' = m
                  /\ chunks' = chs
                  /\ outq' = q
                  /\ gh' = [gh EXCEPT !.log = Push(@, <<"resp", OpResponders(ctl)[m]>>),
                                      !.sentTo = Reader(rem),
                                      !.quiet = quiet \cup {m},
                                      !.resent = m \in quiet]
                  /\ UNCHANGED <<chan, rem>>
        ELSE IF HasMarker(Last(chs), OpLine(ctl).d)
             THEN RunFinish(chs, q, UNSET)
             ELSE IF OpBreakOn(ctl) /\ MatchesPrompt(Last(chs))
                  THEN RunFinish(chs, q, BREAK_TRIGGERED)
                  ELSE /\ ctl' = [ctl EXCEPT !.pc = "loop"]
                       /\ ridx' = 0
                       /\ chunks' = chs
                       /\ outq' = q
                       /\ gh' = [gh EXCEPT !.quiet = quiet]
                       /\ UNCHANGED <<chan, inq, rem>>

\* lines 243-269: one turn of the loop: recv appends to the last chunk
RunPoll ==
    /\ ctl.pc = "loop"
    /\ \E n \in Arrived(outq) :
          RunChecks([chunks EXCEPT ![Len(chunks)] = @ \o Take(outq, n)],
                    DropN(outq, n), 1)
    /\ UNCHANGED fmt

\* lines 254-258: after the wait that follows a response, flush(): what it
\* returns becomes a new chunk, and the for loop goes on
RunRespFlush ==
    /\ ctl.pc = "respflush"
    /\ IF chan # "open"
       THEN /\ ctl' = OnRaise(ctl, "RuntimeError")
            /\ gh' = Recorded(ctl, ctl', gh)
            /\ chunks' = <<>>
            /\ ridx' = 0
            /\ UNCHANGED <<chan, inq, outq, rem>>
       ELSE \E n \in Arrived(outq) :
               RunChecks(IF n > 0 THEN Append(chunks, Take(outq, n)) ELSE chunks,
                         DropN(outq, n), ridx + 1)
    /\ UNCHANGED fmt

\* lines 237-241: what the message of the CommandTimeoutError is built from
CommandTimeoutError_args(c) ==
    [formatted_command |-> OpLine(c), exitcode_delimiter |-> OpLine(c).d,
     break_on |-> OpBreakOn(c)]

\* the output an error carries, if it carries any
ErrOutput(args) == IF "output" \in DOMAIN args THEN args.output ELSE <<>>

\* lines 236-241: the wait exceeded the timeout
RunTimeout ==
    /\ ctl.pc = "loop"
    /\ gh.faults < MaxFaults
    /\ ctl' = OnRaise(ctl, "CommandTimeoutError")
    /\ gh' = Recorded(ctl, ctl',
                      [gh EXCEPT !.faults = @ + 1,
                                 !.terr = [raised |-> TRUE,
                                           carried |-> ErrOutput(CommandTimeoutError_args(ctl)),
                                           partial |-> Join(chunks)]])
    /\ chunks' = <<>>
    /\ ridx' = 0
    /\ UNCHANGED <<chan, inq, outq, rem>>
    /\ UNCHANGED fmt


----------------------------------------------------------------------------
(* The remote side: the shells and the ssh client behind the channel *)

\* the ssh client launched for the target the client is now waiting for
\* ended without a login
SshEnded(g, h) ==
    IF ctl.op = "ssh" /\ ctl.ti = h /\ ctl.pc \in {"loop", "respflush"}
    THEN [g EXCEPT !.sshExit = @ \cup {h}]
    ELSE g

\* the exit statuses a line can end with: a user command any, setenv a
\* failure while the budget of faults lasts, everything else 0
StatusOf(l, g) ==
    CASE l.k = "cmd" -> ExitCodes
      [] l.k = "setenv" /\ g.faults < MaxFaults -> ExitCodes
      [] OTHER -> {0}

\* the shell that reads the terminal takes the next line and runs it
ShellExec ==
    /\ rem.fg = "shell"
    /\ inq # <<>>
    /\ \E c \in StatusOf(Head(inq), gh) :
          LET l == Head(inq)
              x == ShellRun(rem, l, c)
              refused == l.k = "ssh" /\ x.r.fg # "auth"
              g0 == IF l.k = "setenv" /\ c # 0
                    THEN [gh EXCEPT !.faults = @ + 1] ELSE gh
          IN  /\ Len(outq) + Len(x.out) <= MaxOutq
              /\ rem' = x.r
              /\ outq' = outq \o x.out
              /\ chan' = IF x.r.fg = "dead" THEN "closed" ELSE chan
              /\ gh' = Consumed(IF refused THEN SshEnded(g0, l.n) ELSE g0, TRUE,
                                IF l.k = "probe" /\ l.v \in TopEnv(rem) THEN 1 ELSE 0)
    /\ inq' = Tail(inq)
    /\ UNCHANGED <<ctl, chunks, ridx>>
    /\ UNCHANGED fmt

\* ssh asks: first whether to trust the host key, then for the password
SshAsk ==
    /\ rem.fg = "auth"
    /\ rem.wait = ""
    /\ \E q \in {"fp", "pw"} \ rem.asked :
          /\ q = "fp" => "pw" \notin rem.asked
          /\ Len(outq) < MaxOutq
          /\ rem' = [rem EXCEPT !.wait = q, !.asked = @ \cup {q}]
          /\ outq' = Append(outq, Ask(q))
    /\ UNCHANGED <<ctl, chan, chunks, ridx, inq, gh>>
    /\ UNCHANGED fmt

\* ssh reads the answer to its question: the response of the responder it
\* was asked for lets it go on, anything else ends it
SshAnswer ==
    /\ rem.fg = "auth"
    /\ rem.wait # ""
    /\ inq # <<>>
    /\ LET l == Head(inq)
       IN  IF l.k = "resp" /\ l.v = rem.wait
           THEN /\ rem' = [rem EXCEPT !.wait = ""]
                /\ outq' = outq
                /\ gh' = Consumed(gh, FALSE, 0)
           ELSE /\ Len(outq) + 2 <= MaxOutq
                /\ rem' = [rem EXCEPT !.fg = "shell", !.wait = ""]
                /\ outq' = outq \o <<Mk(rem.ad, SshFailCode), TopPrompt(rem)>>
                /\ gh' = Consumed(SshEnded(gh, rem.ah), FALSE, 0)
    /\ inq' = Tail(inq)
    /\ UNCHANGED <<ctl, chan, chunks, ridx>>
    /\ UNCHANGED fmt

\* ssh logs in: the shell of the target reads the terminal from now on
SshLogin ==
    /\ rem.fg = "auth"
    /\ rem.wait = ""
    /\ Len(outq) < MaxOutq
    /\ rem' = [rem EXCEPT !.fg = "shell",
                          !.nest = Append(@, [h |-> rem.ah, env |-> {}, d |-> rem.ad])]
    /\ outq' = Append(outq, Pr("tgt"))
    /\ UNCHANGED <<ctl, chan, chunks, ridx, inq, gh>>
    /\ UNCHANGED fmt

\* ssh gives up (host unreachable, access denied): the shell that launched
\* it runs the rest of the line, "; echo <d>:$?"
SshExit ==
    /\ rem.fg = "auth"
    /\ Len(outq) + 2 <= MaxOutq
    /\ rem' = [rem EXCEPT !.fg = "shell", !.wait = ""]
    /\ outq' = outq \o <<Mk(rem.ad, SshFailCode), TopPrompt(rem)>>
    /\ gh' = SshEnded(gh, rem.ah)
    /\ UNCHANGED <<ctl, chan, chunks, ridx, inq>>
    /\ UNCHANGED fmt

\* the nested hop is lost while its shell is idle
HopDrop ==
    /\ rem.fg = "shell"
    /\ rem.nest # <<>>
    /\ gh.faults < MaxFaults
    /\ Len(outq) + 2 <= MaxOutq
    /\ rem' = PopHop(rem, SshFailCode).r
    /\ outq' = outq \o PopHop(rem, SshFailCode).out
    /\ gh' = [gh EXCEPT !.faults = @ + 1]
    /\ UNCHANGED <<ctl, chan, chunks, ridx, inq>>
    /\ UNCHANGED fmt

----------------------------------------------------------------------------

Next ==
    \/ NextTarget
    \/ ReturnResults
    \/ ConnectOk
    \/ ConnectFail
    \/ Expect
    \/ ExpectTimeout
    \/ GatewayClose
    \/ RunSend
    \/ RunPoll
    \/ RunRespFlush
    \/ RunTimeout
    \/ ShellExec
    \/ SshAsk
    \/ SshAnswer
    \/ SshLogin
    \/ SshExit
    \/ HopDrop

Spec == Init /\ [][Next]_vars

\* BackupsRunner.backup_generator drives the same group, one run_target
\* per target with the backup script as its only command
\* the station of the runner: its gateway (ip 0), NTargets sensors in
\* service (ip 1..NTargets) and one sensor still to be installed
station_data ==
    <<[type |-> "CMC", ip_external |-> 0, state |-> "activo"]>>
    \o [i \in 1..NTargets |->
            [type |-> "GUARDIAN", ip_external |-> i, state |-> "activo"]]
    \o <<[type |-> "GUARDIAN", ip_external |-> NTargets + 1,
          state |-> "pendiente"]>>

\* (variant: a machine without a secret gets no password and no error)
get_machine_password_none(secrets, ip) == "none"

\* BackupsRunner.get_machine_password, lines 89-94: the exception raised,
\* "none" when station_secrets has a password for the address
get_machine_password(secrets, ip) ==
    IF ip \in secrets THEN "none" ELSE "MachinePasswordMissingError"

\* BackupsRunner.get_gateway_machine: the CMC records, which must be one
get_gateway_machine ==
    LET IsCMC(m) == m.type = "CMC"
        cmc_list == SelectSeq(station_data, IsCMC)
    IN  IF Len(cmc_list) # 1
        THEN [exc |-> "CorruptedDataFileError"]
        ELSE [exc |-> "none", machine |-> cmc_list[1]]

\* BackupsRunner.get_target_machines: the sensors eligible for backup
get_target_machines ==
    LET Eligible(m) == m.type = "GUARDIAN" /\ m.state # "pendiente"
    IN  SelectSeq(station_data, Eligible)

\* BackupsRunner.build_gateway_ssh_connection_data_instance: the exception
\* it raises, "none" when it returns the connection data
build_gateway_ssh_connection_data_instance(secrets) ==
    LET cmc_data == get_gateway_machine
    IN  IF cmc_data.exc # "none" THEN cmc_data.exc
        ELSE get_machine_password(secrets, cmc_data.machine.ip_external)

\* BackupsRunner.build_target_ssh_connection_data_instances: the password
\* of each eligible machine in turn; the first exception raised
build_target_ssh_connection_data_instances(secrets) ==
    LET machines == get_target_machines
        failed == {i \in 1..Len(machines) :
                     get_machine_password(secrets, machines[i].ip_external)
                         # "none"}
    IN  IF failed = {} THEN "none"
        ELSE get_machine_password(secrets,
                 machines[CHOOSE i \in failed : \A j \in failed : i <= j].ip_external)

\* backup_generator, lines 271-298: the connection data of the gateway and
\* of the targets are built before the group exists and outside the try
BackupBuild ==
    /\ ctl.pc = "build"
    /\ LET e1 == build_gateway_ssh_connection_data_instance(ctl.secrets)
           e2 == build_target_ssh_connection_data_instances(ctl.secrets)
       IN  ctl' = CASE e1 # "none" -> [ctl EXCEPT !.pc = "raised", !.exc = e1]
                    [] e2 # "none" -> [ctl EXCEPT !.pc = "raised", !.exc = e2]
                    [] OTHER -> [ctl EXCEPT !.pc = "next"]
    /\ UNCHANGED <<chan, chunks, ridx, inq, outq, rem, gh>>
    /\ UNCHANGED fmt

BackupNext == BackupBuild \/ Next

BackupInit ==
    /\ ctl \in {[InitCtl EXCEPT !.drv = "backup_generator",
                                !.commands = <<"TargetBashScript">>,
                                !.pc = "build", !.secrets = s] :
                    s \in SUBSET (0..NTargets)}
    /\ chan = "none"
    /\ chunks = <<>>
    /\ ridx = 0
    /\ inq = <<>>
    /\ outq = <<>>
    /\ rem = NoRemote
    /\ gh = InitGh
    /\ fmt = NoFmt

SpecBackup == BackupInit /\ [][BackupNext]_vars

----------------------------------------------------------------------------
(* The same client with a clock.  expect and _run_raw poll the channel in  *)
(* a loop and compare time.time() - start_time with the timeout; ctl.t is  *)
(* that difference, in turns of 0.1 s.  The remote side is not modelled:   *)
(* whenever the channel is polled, it may have sent anything or nothing.   *)

\* (variant: a turn of the loop that takes no time)
Slept_frozen(t) == t

\* time.sleep(0.1) at the end of a turn, and the wait of send
Slept(t) == t + 1

\* channel.recv_ready() / recv: nothing, or one more token of any kind
Heard(c, sofar) ==
    IF Len(sofar) >= MaxHeard
    THEN {<<>>}
    ELSE {<<>>} \cup {<<x>> : x \in {Pr("gw"), Ex(0), Ask("fp"), Ask("pw")}
                                     \cup (IF c.op = "connect" THEN {}
                                           ELSE {Mk(OpLine(c).d, 0)})}

\* a call is over: the clock of the next one starts at 0
Left(c) == [c EXCEPT !.t = 0]

\* expect, lines 159-170
TimedExpect ==
    /\ ctl.pc = "expect"
    /\ ctl.t < TickLimit
    /\ \E h \in Heard(ctl, chunks[1]) :
          LET output == chunks[1] \o h
          IN  IF h # <<>> /\ MatchesPrompt(output)
              THEN /\ ctl' = Left(StartRun(ctl, "gwSet"))
                   /\ chunks' = <<output>>
              ELSE /\ ctl' = [ctl EXCEPT !.t = Slept(@)]
                   /\ chunks' = <<output>>
    /\ UNCHANGED <<chan, ridx, inq, outq, rem, gh>>
    /\ UNCHANGED fmt

\* expect, line 172: the while condition fails
TimedExpectTimeout ==
    /\ ctl.pc = "expect"
    /\ ~(ctl.t < TickLimit)
    /\ ctl' = Left(OnRaise(ctl, connect_except("TimeoutError")))
    /\ chunks' = <<>>
    /\ UNCHANGED <<chan, ridx, inq, outq, rem, gh>>
    /\ UNCHANGED fmt

\* _run_raw, lines 219-233
TimedRunSend ==
    /\ ctl.pc = "send"
    /\ IF chan # "open"
       THEN /\ ctl' = Left(OnRaise(ctl, "RuntimeError"))
            /\ UNCHANGED <<chunks, ridx>>
       ELSE /\ chunks' = << <<>> >>
            /\ ridx' = 0
            /\ ctl' = [ctl EXCEPT !.pc = "loop", !.t = 0]
    /\ UNCHANGED <<chan, inq, outq, rem, gh>>
    /\ UNCHANGED fmt

\* _run_raw, lines 271-287
TimedRunFinish(chs, exit_code) ==
    \E h \in Heard(ctl, Join(chs)) :
        LET chs2 == IF h # <<>> THEN Append(chs, h) ELSE chs
            r == RunResult(chs2, exit_code, OpLine(ctl).d)
        IN  /\ ctl' = Left(OnReturn(ctl, r.output, r.code))
            /\ chunks' = <<>>
            /\ ridx' = 0

\* _run_raw, lines 249-269
TimedRunChecks(chs, from) ==
    LET m == FirstMatch(OpResponders(ctl), Last(chs), from)
    IN  IF m # 0
        THEN /\ ctl' = [ctl EXCEPT !.pc = "respflush", !.t = Slept(@)]
             /\ ridx' = m
             /\ chunks' = chs
        ELSE IF HasMarker(Last(chs), OpLine(ctl).d)
             THEN TimedRunFinish(chs, UNSET)
             ELSE IF OpBreakOn(ctl) /\ MatchesPrompt(Last(chs))
                  THEN TimedRunFinish(chs, BREAK_TRIGGERED)
                  ELSE /\ ctl' = [ctl EXCEPT !.pc = "loop", !.t = Slept(@)]
                       /\ ridx' = 0
                       /\ chunks' = chs

\* _run_raw, lines 235-269: one turn that begins before the timeout
TimedRunPoll ==
    /\ ctl.pc = "loop"
    /\ ~(ctl.t > TickLimit)
    /\ \E h \in Heard(ctl, Join(chunks)) :
          TimedRunChecks([chunks EXCEPT ![Len(chunks)] = @ \o h], 1)
    /\ UNCHANGED <<chan, inq, outq, rem, gh>>
    /\ UNCHANGED fmt

\* _run_raw, lines 254-258
TimedRunRespFlush ==
    /\ ctl.pc = "respflush"
    /\ \E h \in Heard(ctl, Join(chunks)) :
          TimedRunChecks(IF h # <<>> THEN Append(chunks, h) ELSE chunks, ridx + 1)
    /\ UNCHANGED <<chan, inq, outq, rem, gh>>
    /\ UNCHANGED fmt

\* _run_raw, lines 236-241
TimedRunTimeout ==
    /\ ctl.pc = "loop"
    /\ ctl.t > TickLimit
    /\ ctl' = Left(OnRaise(ctl, "CommandTimeoutError"))
    /\ chunks' = <<>>
    /\ ridx' = 0
    /\ UNCHANGED <<chan, inq, outq, rem, gh>>
    /\ UNCHANGED fmt

TimedNext ==
    \/ NextTarget
    \/ ReturnResults
    \/ ConnectOk
    \/ ConnectFail
    \/ GatewayClose
    \/ TimedExpect
    \/ TimedExpectTimeout
    \/ TimedRunSend
    \/ TimedRunPoll
    \/ TimedRunRespFlush
    \/ TimedRunTimeout

\* the client is a running program: it takes its next step
SpecTimed == Init /\ [][TimedNext]_vars /\ WF_vars(TimedNext)

\* run_all_targets of a group of ListTargets targets with a list of MaxCmds
\* commands, with and without break_on
ListTargets == 1

ListCommandLists == [1..MaxCmds -> {"TargetCommand", BreakCommand}]

ListInit ==
    /\ ctl \in {[InitCtl EXCEPT !.commands = cs, !.targets = ListTargets] :
                    cs \in ListCommandLists}
    /\ chan = "none"
    /\ chunks = <<>>
    /\ ridx = 0
    /\ inq = <<>>
    /\ outq = <<>>
    /\ rem = NoRemote
    /\ gh = InitGh
    /\ fmt = NoFmt

SpecList == ListInit /\ [][Next]_vars


----------------------------------------------------------------------------
(* ssh/formatter.py on text.  A text is a sequence of characters; the words *)
(* the formatter writes ("echo", "$?", a delimiter) are single characters   *)
(* of the model, so a delimiter has no regex metacharacters and no part of  *)
(* it looks like another one.                                               *)

Delimiters == {DEFAULT_EXITCODE_DELIMITER, TARGET_SESSION_EXITCODE_DELIMITER}

DigitChars == <<"0", "1", "2", "3", "4", "5", "6", "7", "8", "9">>

IsDigit(ch) == \E k \in 1..10 : DigitChars[k] = ch

DigitValue(ch) == (CHOOSE k \in 1..10 : DigitChars[k] = ch) - 1

\* the shell writing $? in decimal
RECURSIVE Decimal(_)
Decimal(n) ==
    IF n < 10 THEN <<DigitChars[n + 1]>>
    ELSE Decimal(n \div 10) \o <<DigitChars[(n % 10) + 1]>>

\* int(match.group(1))
RECURSIVE int(_)
int(ds) ==
    IF ds = <<>> THEN 0 ELSE 10 * int(Front(ds)) + DigitValue(Last(ds))

\* command.strip()
RECURSIVE strip(_)
strip(t) ==
    CASE t = <<>> -> <<>>
      [] Head(t) \in {" ", "\n"} -> strip(Tail(t))
      [] Last(t) \in {" ", "\n"} -> strip(Front(t))
      [] OTHER -> t

\* CommandFormatter.regular_command
regular_command(command, exitcode_delimiter, run_as_root) ==
    LET base_cmd == strip(command)
        full_cmd == base_cmd \o <<";", " ", "echo", " ", exitcode_delimiter, ":", "$?">>
    IN  IF run_as_root THEN <<"sudo su root -c", " ">> \o full_cmd ELSE full_cmd

\* the shell expands $? in the words of a command
RECURSIVE Expand(_, _)
Expand(t, c) ==
    IF t = <<>> THEN <<>>
    ELSE (IF Head(t) = "$?" THEN Decimal(c) ELSE <<Head(t)>>) \o Expand(Tail(t), c)

\* what the echo at the end of the line prints when $? is c
EchoWritten(line, c) ==
    LET i == CHOOSE k \in 1..Len(line) :
                 line[k] = "echo" /\ \A j \in (k + 1)..Len(line) : line[j] # "echo"
    IN  Expand(SubSeq(line, i + 2, Len(line)), c) \o <<"\n">>

\* re.search(rf"{exitcode_delimiter}:(\d+)", output): where the first match
\* starts, 0 if there is none
re_search(output, d) ==
    LET ms == {i \in 1..Len(output) :
                  /\ i + 2 <= Len(output)
                  /\ output[i] = d /\ output[i + 1] = ":" /\ IsDigit(output[i + 2])}
    IN  IF ms = {} THEN 0 ELSE CHOOSE i \in ms : \A j \in ms : i <= j

\* (variant: the group (\d) instead of (\d+))
match_group_one(output, j) == <<output[j]>>

\* match.group(1): the digits from position j on, as many as there are
RECURSIVE match_group(_, _)
match_group(output, j) ==
    IF j <= Len(output) /\ IsDigit(output[j])
    THEN <<output[j]>> \o match_group(output, j + 1)
    ELSE <<>>

\* (variant: a missing marker decoded as exit code 0)
extract_exit_code_text_default(output, d) ==
    LET i == re_search(output, d)
    IN  IF i = 0
        THEN [found |-> TRUE, code |-> 0, clean |-> output]
        ELSE [found |-> TRUE, code |-> int(match_group(output, i + 2)),
              clean |-> Take(output, i - 1)]

\* (variant: the cleaned output keeps the marker)
extract_exit_code_text_keep(output, d) ==
    LET i == re_search(output, d)
    IN  IF i = 0
        THEN [found |-> FALSE, code |-> UNSET, clean |-> output]
        ELSE [found |-> TRUE, code |-> int(match_group(output, i + 2)),
              clean |-> Take(output, i + 1 + Len(match_group(output, i + 2)))]

\* CommandFormatter.extract_exit_code on text; found = FALSE stands for
\* ExitCodeNotFoundError
extract_exit_code_text(output, d) ==
    LET i == re_search(output, d)
    IN  IF i = 0
        THEN [found |-> FALSE, code |-> UNSET, clean |-> output]
        ELSE [found |-> TRUE, code |-> int(match_group(output, i + 2)),
              clean |-> Take(output, i - 1)]

\* what the channel may hold before the marker of the command: nothing, a
\* line of output, or the marker line that an earlier command printed
Befores == {<<>>, <<"x", "\n">>} \cup {<<d, ":", "1", "\n">> : d \in Delimiters}

FormatInit ==
    /\ ctl = InitCtl
    /\ chan = "none"
    /\ chunks = <<>>
    /\ ridx = 0
    /\ inq = <<>>
    /\ outq = <<>>
    /\ rem = NoRemote
    /\ gh = InitGh
    /\ fmt \in [pc : {"start"}, d : Delimiters, c : 0..MaxCode,
                command : {<<"x">>, <<" ", "x", "\n">>},
                run_as_root : BOOLEAN, tty_echo : BOOLEAN,
                before : Befores, after : {<<>>, <<"$", " ">>},
                line : {<<>>}, output : {<<>>}, marked : {FALSE},
                found : {FALSE}, code : {UNSET}, clean : {<<>>}]

\* the caller formats its command
FormatCommand ==
    /\ fmt.pc = "start"
    /\ fmt' = [fmt EXCEPT !.pc = "formatted",
                          !.line = regular_command(fmt.command, fmt.d, fmt.run_as_root)]
    /\ UNCHANGED <<ctl, chan, chunks, ridx, inq, outq, rem, gh>>

\* the remote shell runs the line and ends with status c: the terminal may
\* echo the line, the command prints nothing more, the echo prints the marker
ShellWrites ==
    /\ fmt.pc = "formatted"
    /\ fmt' = [fmt EXCEPT !.pc = "printed", !.marked = TRUE,
                          !.output = (IF fmt.tty_echo THEN fmt.line \o <<"\n">> ELSE <<>>)
                                     \o fmt.before \o EchoWritten(fmt.line, fmt.c)
                                     \o fmt.after]
    /\ UNCHANGED <<ctl, chan, chunks, ridx, inq, outq, rem, gh>>

\* the command has not ended when the output is taken: the channel holds
\* what came before, and no marker of this command
ShellStalls ==
    /\ fmt.pc = "formatted"
    /\ fmt' = [fmt EXCEPT !.pc = "printed",
                          !.output = (IF fmt.tty_echo THEN fmt.line \o <<"\n">> ELSE <<>>)
                                     \o fmt.before]
    /\ UNCHANGED <<ctl, chan, chunks, ridx, inq, outq, rem, gh>>

\* the caller decodes the output
ExtractExitCode ==
    /\ fmt.pc = "printed"
    /\ LET x == extract_exit_code_text(fmt.output, fmt.d)
       IN  fmt' = [fmt EXCEPT !.pc = "decoded", !.found = x.found,
                              !.code = x.code, !.clean = x.clean]
    /\ UNCHANGED <<ctl, chan, chunks, ridx, inq, outq, rem, gh>>

FormatNext ==
    \/ FormatCommand
    \/ ShellWrites
    \/ ShellStalls
    \/ ExtractExitCode

SpecFormat == FormatInit /\ [][FormatNext]_vars

----------------------------------------------------------------------------
(* ssh/responders.py: Responder.  A pattern is a list of tokens of the     *)
(* regular expression syntax: two literals, the parentheses of a group and *)
(* two counted repeats, one of them with a count of MAXREPEAT or more.     *)

MaxPattern == 3   \* tokens of a pattern
MaxText == 2      \* characters of the output searched

PatternTokens == {"a", "b", "(", ")", "{2}", "{4294967296}"}

Patterns == UNION {[1..n -> PatternTokens] : n \in 0..MaxPattern}

Texts == UNION {[1..n -> {"a", "b"}] : n \in 0..MaxText}

IsRepeat(tok) == tok \in {"{2}", "{4294967296}"}

\* the count of a repeat is MAXREPEAT or more
RepeatTooLarge(tok) == tok = "{4294967296}"

RECURSIVE Times(_, _)
Times(s, n) == IF n = 0 THEN <<>> ELSE s \o Times(s, n - 1)

\* one open group of the parser: what it has read, its last item, and
\* whether that item exists and is already repeated
NoItems == [done |-> <<>>, item |-> <<>>, has |-> FALSE, rep |-> FALSE]

\* the parser of re.compile, token by token; stack holds the open groups.
\* The result is the exception raised, or the literals the pattern stands
\* for
RECURSIVE sre_parse(_, _)
sre_parse(pattern, stack) ==
    LET n == Len(stack)
        top == stack[n]
        Top(level) == [stack EXCEPT ![n] = level]
    IN  IF pattern = <<>>
        THEN IF n > 1 THEN [exc |-> "re.error"]
             ELSE [exc |-> "none", prog |-> top.done \o top.item]
        ELSE LET tok == Head(pattern)
                 rest == Tail(pattern)
             IN  CASE tok = "(" -> sre_parse(rest, Append(stack, NoItems))
                   [] tok = ")" ->
                        IF n = 1 THEN [exc |-> "re.error"]
                        ELSE LET below == stack[n - 1]
                                 group == [done |-> below.done \o below.item,
                                           item |-> top.done \o top.item,
                                           has |-> TRUE, rep |-> FALSE]
                             IN  sre_parse(rest,
                                     Append(SubSeq(stack, 1, n - 2), group))
                   [] IsRepeat(tok) ->
                        IF RepeatTooLarge(tok) THEN [exc |-> "OverflowError"]
                        ELSE IF ~top.has \/ top.rep THEN [exc |-> "re.error"]
                        ELSE sre_parse(rest,
                                 Top([top EXCEPT !.item = Times(@, 2),
                                                 !.rep = TRUE]))
                   [] OTHER ->
                        sre_parse(rest,
                            Top([done |-> top.done \o top.item,
                                 item |-> <<tok>>,
                                 has |-> TRUE, rep |-> FALSE]))

re_compile(pattern) == sre_parse(pattern, <<NoItems>>)

\* Responder.__post_init__, lines 25-29: re.error becomes ValueError; any
\* other exception of re.compile leaves as it is
Responder_post_init(pattern) ==
    LET r == re_compile(pattern)
    IN  IF r.exc = "re.error" THEN [exc |-> "ValueError"] ELSE r

\* _compiled_regex.search(text), connection.py line 250
compiled_search(prog, text) ==
    \E i \in 1..(Len(text) + 1) :
        /\ i + Len(prog) - 1 <= Len(text)
        /\ SubSeq(text, i, i + Len(prog) - 1) = prog

ResponderInit ==
    /\ ctl = InitCtl
    /\ chan = "none"
    /\ chunks = <<>>
    /\ ridx = 0
    /\ inq = <<>>
    /\ outq = <<>>
    /\ rem = NoRemote
    /\ gh = InitGh
    /\ fmt \in [pc : {"new"}, pattern : Patterns, exc : {"none"},
                prog : {<<>>}, text : {<<>>}, hit : {FALSE}]

\* Responder(pattern, response)
ResponderBuild ==
    /\ fmt.pc = "new"
    /\ LET r == Responder_post_init(fmt.pattern)
       IN  fmt' = IF r.exc # "none"
                  THEN [fmt EXCEPT !.pc = "failed", !.exc = r.exc]
                  ELSE [fmt EXCEPT !.pc = "built", !.prog = r.prog]
    /\ UNCHANGED <<ctl, chan, chunks, ridx, inq, outq, rem, gh>>

\* _run_raw, lines 249-251: each responder is tried on the last chunk
ResponderSearch ==
    /\ fmt.pc \in {"built", "searched"}
    /\ \E text \in Texts :
          fmt' = [fmt EXCEPT !.pc = "searched", !.text = text,
                             !.hit = compiled_search(fmt.prog, text)]
    /\ UNCHANGED <<ctl, chan, chunks, ridx, inq, outq, rem, gh>>

ResponderNext ==
    \/ ResponderBuild
    \/ ResponderSearch

SpecResponder == ResponderInit /\ [][ResponderNext]_vars

----------------------------------------------------------------------------
(* ssh/formatter.py: bash_script_from_string, and the shell that reads the *)
(* line it makes.  A text is a list of characters and of whole words       *)
(* ("bash", "-s", "EOF"); an argument is a list of characters.             *)

MaxArg == 3   \* characters of an argument of the script

ArgChars == {"a", "b", " "}

ScriptArgs == UNION {[1..n -> ArgChars] : n \in 1..MaxArg}

\* the texts of a list, one after the other with sep between two of them
RECURSIVE str_join(_, _)
str_join(texts, sep) ==
    CASE texts = <<>> -> <<>>
      [] Len(texts) = 1 -> texts[1]
      [] OTHER -> texts[1] \o sep \o str_join(Tail(texts), sep)

\* shlex.quote: an argument of safe characters is left alone, any other is
\* put in single quotes, each single quote of it written as '"'"'
RECURSIVE shlex_replace(_)
shlex_replace(arg) ==
    IF arg = <<>> THEN <<>>
    ELSE (IF Head(arg) = "'" THEN <<"'", "\"", "'", "\"", "'">>
          ELSE <<Head(arg)>>) \o shlex_replace(Tail(arg))

shlex_quote(arg) ==
    CASE arg = <<>> -> <<"'", "'">>
      [] \A i \in 1..Len(arg) : arg[i] \notin {" ", "'", "\""} -> arg
      [] OTHER -> <<"'">> \o shlex_replace(arg) \o <<"'">>

\* CommandFormatter.bash_script_from_string, lines 60-68
bash_script_from_string(script_content, exitcode_delimiter, args, run_as_root) ==
    LET quoted == [i \in 1..Len(args) |-> shlex_quote(args[i])]
        joined_args == str_join(quoted, <<" ">>)
        cmd == <<"'", "bash", " ", "-s", " ">> \o joined_args
               \o <<"'", " ", "<<", " ", "\"", "EOF", "\"", " ", ";", " ",
                    "echo", " ", exitcode_delimiter, ":", "$?", " ", "\n">>
               \o script_content \o <<"\n", "\"", "EOF", "\"", "\n">>
    IN  IF run_as_root
        THEN <<"sudo", " ", "su", " ", "root", " ", "-c", " ">> \o cmd
        ELSE cmd

\* the words the shell makes of the first simple command of a text: quotes
\* are removed, a blank outside quotes ends a word, and a redirection, a
\* semicolon or a newline outside quotes ends the command
RECURSIVE ShellWords(_, _, _, _, _)
ShellWords(text, q, cur, open, words) ==
    LET closed == IF open THEN Append(words, cur) ELSE words
    IN  IF text = <<>> THEN closed
        ELSE LET ch == Head(text)
                 rest == Tail(text)
             IN  CASE q = "single" ->
                        IF ch = "'" THEN ShellWords(rest, "none", cur, TRUE, words)
                        ELSE ShellWords(rest, q, Append(cur, ch), TRUE, words)
                   [] q = "double" ->
                        IF ch = "\"" THEN ShellWords(rest, "none", cur, TRUE, words)
                        ELSE ShellWords(rest, q, Append(cur, ch), TRUE, words)
                   [] ch = "'" -> ShellWords(rest, "single", cur, TRUE, words)
                   [] ch = "\"" -> ShellWords(rest, "double", cur, TRUE, words)
                   [] ch = " " -> ShellWords(rest, "none", <<>>, FALSE, closed)
                   [] ch \in {"<<", ";", "\n"} -> closed
                   [] OTHER -> ShellWords(rest, "none", Append(cur, ch), TRUE, words)

\* the shell runs argv: bash -s reads the script and gives it the words
\* that follow; a first word that names no program ends in status 127
ShellExecScript(argv) ==
    IF Len(argv) >= 2 /\ argv[1] = <<"bash">> /\ argv[2] = <<"-s">>
    THEN [ran |-> TRUE, argv |-> SubSeq(argv, 3, Len(argv))]
    ELSE [ran |-> FALSE, argv |-> <<>>]

\* the remote shell on the line: su root -c hands its first operand to a
\* shell of root, which makes words of it once more
ShellRunScript(line) ==
    LET words == ShellWords(line, "none", <<>>, FALSE, <<>>)
    IN  IF Len(words) >= 5
           /\ SubSeq(words, 1, 4) = <<<<"sudo">>, <<"su">>, <<"root">>, <<"-c">>>>
        THEN ShellExecScript(ShellWords(words[5], "none", <<>>, FALSE, <<>>))
        ELSE ShellExecScript(words)

ScriptInit ==
    /\ ctl = InitCtl
    /\ chan = "none"
    /\ chunks = <<>>
    /\ ridx = 0
    /\ inq = <<>>
    /\ outq = <<>>
    /\ rem = NoRemote
    /\ gh = InitGh
    /\ fmt \in [pc : {"start"}, args : [1..2 -> ScriptArgs],
                run_as_root : BOOLEAN, line : {<<>>},
                ran : {FALSE}, argv : {<<>>}]

\* the caller formats its script
ScriptFormat ==
    /\ fmt.pc = "start"
    /\ fmt' = [fmt EXCEPT !.pc = "formatted",
                  !.line = bash_script_from_string(<<"body">>,
                               DEFAULT_EXITCODE_DELIMITER, fmt.args,
                               fmt.run_as_root)]
    /\ UNCHANGED <<ctl, chan, chunks, ridx, inq, outq, rem, gh>>

\* the remote shell reads the line
ScriptRun ==
    /\ fmt.pc = "formatted"
    /\ LET x == ShellRunScript(fmt.line)
       IN  fmt' = [fmt EXCEPT !.pc = "run", !.ran = x.ran, !.argv = x.argv]
    /\ UNCHANGED <<ctl, chan, chunks, ridx, inq, outq, rem, gh>>

ScriptNext ==
    \/ ScriptFormat
    \/ ScriptRun

SpecScript == ScriptInit /\ [][ScriptNext]_vars

----------------------------------------------------------------------------
(* Properties *)

TargetTokenOps == {"tSet", "tVerify"}

\* the client is inside the SSHConnection.run call of the call site o
InCall(o) == ctl.op = o /\ ctl.pc \in {"loop", "respflush"}

\* C1: the user command of run_at_target is transmitted only while the
\* shell that reads the channel is the nested shell of the current target,
\* never while the gateway shell or anything else reads it.
C1_CommandOnlyToCurrentTarget ==
    InCall("cmd") => gh.sentTo = ToString(ctl.ti)

\* C2: once the ssh launched for the current target has ended with an exit
\* code while establish_target_host_connection was waiting for it, the
\* target token is neither set nor verified for that target.
C2_SshExitNeverSetsToken ==
    (ctl.ti \in gh.sshExit /\ ctl.pc \in {"send", "loop", "respflush"})
        => ctl.op \notin TargetTokenOps

SessionDefects == {"TargetSSHConnectionError", "TargetSessionInactiveError"}

TargetLevelErrors ==
    SessionDefects \cup {"CommandTimeoutError", "ExitCodeNotFoundError"}

\* C3: after a target-level session defect at target k the batch goes on:
\* run_all_targets returns one result per target, and an exception leaves
\* it, if at all, only after target k+1 was attempted.
C3_DefectDoesNotAbortBatch ==
    /\ ctl.pc = "done" => Len(ctl.results) = NTargets
    /\ ctl.pc = "raised" =>
          \A k \in 1..Len(ctl.results) :
              ctl.results[k].error \in SessionDefects => ctl.ti > k

\* C4: a failure of the gateway connect while target k is processed is never
\* turned into a result; it leaves run_all_targets as
\* GatewaySSHConnectionError, with results for the targets before k only and
\* with the loop stopped at target k.
C4_GatewayConnectFailureAborts ==
    /\ \A k \in 1..Len(gh.at) : gh.at[k] # "connect"
    /\ ctl.exc = "GatewaySSHConnectionError" =>
          /\ ctl.pc = "raised"
          /\ ctl.op = "connect"
          /\ Len(ctl.results) = ctl.ti - 1

\* the gateway connect failed at a target that is not the last one (its
\* successors are never attempted)
C4_Witness ==
    /\ ctl.pc = "raised"
    /\ ctl.exc = "GatewaySSHConnectionError"
    /\ ctl.ti < NTargets

\* C5: when a user command timed out on target k and that was recorded as
\* the result of k, no exception leaves run_all_targets.
C5_CommandTimeoutIsContained ==
    (\E k \in 1..Len(gh.at) :
        gh.at[k] = "cmd" /\ ctl.results[k].error = "CommandTimeoutError")
        => ctl.pc # "raised"

\* the call sites of establish_gateway_connection
GatewayHopOps == {"connect", "gwSet", "gwVerify"}

\* C6: while target k+1 is processed after a failed result of target k with
\* a target-level error (one that arose past the gateway hop), the client is connecting the gateway anew or works
\* on a gateway connection made for target k+1.
C6_ResetAfterTargetFailure ==
    (/\ ctl.ti >= 2
     /\ Len(ctl.results) = ctl.ti - 1
     /\ ctl.results[ctl.ti - 1].error \in TargetLevelErrors
     /\ gh.at[ctl.ti - 1] \notin GatewayHopOps)
        => (ctl.op = "connect" \/ gh.conn = ctl.ti)

\* C7: no failed result of run_target stems from a step of
\* establish_gateway_connection (connect, set the gateway token, verify it).
C7_GatewayFailureNeverAResult ==
    \A k \in 1..Len(gh.at) : gh.at[k] \notin GatewayHopOps

\* the i-th last event on the channel (<<"", "">> if there is none)
Ago(i) ==
    IF Len(gh.log) > i THEN gh.log[Len(gh.log) - i] ELSE <<"", "">>

\* C8: the event right after a gateway connect is the setting of the
\* gateway token and the one after that its verification; the same for the
\* nested ssh that reached a prompt, with the target token; and the line
\* sent right before a command at the target (the user's or the exit) is
\* the probe of the target token.
C8_TokenProtocolOrder ==
    /\ Ago(1) = <<"connect", "">> => Ago(0) = <<"setenv", GATEWAY_SESSION_VAR>>
    /\ Ago(2) = <<"connect", "">> => Ago(0) = <<"probe", GATEWAY_SESSION_VAR>>
    /\ Ago(1) = <<"break", "">> => Ago(0) = <<"setenv", TARGET_SESSION_VAR>>
    /\ Ago(2) = <<"break", "">> => Ago(0) = <<"probe", TARGET_SESSION_VAR>>
    /\ Ago(0)[1] \in {"cmd", "exit"} => Ago(1) = <<"probe", TARGET_SESSION_VAR>>

\* a user command was sent after the whole protocol: connect, both tokens
\* set and verified, the target token verified again
C8_Witness ==
    /\ InCall("cmd")
    /\ Ago(0) = <<"cmd", "">>
    /\ Ago(1) = <<"probe", TARGET_SESSION_VAR>>
    /\ Ago(2) = <<"probe", TARGET_SESSION_VAR>>
    /\ gh.conn = ctl.ti

\* C9: a verification whose probe was answered by a shell returns normally
\* if that shell has the token set, and raises if it has not.
C9_VerifyMatchesAnsweringShell ==
    (gh.ver.done /\ gh.ver.answered) => (gh.ver.passed <=> gh.ver.ans = 1)

\* C10: the gateway-token precondition of establish_target_host_connection
\* never fails as GatewaySessionInactiveError (it is raised as
\* TargetSSHConnectionError, which run_target records).
C10_PreconditionFailsAsTargetError ==
    ctl.exc = "GatewaySessionInactiveError" => ctl.op # "preVerify"

\* C11: establish_gateway_connection reports a failed connect (the wait for
\* the first prompt included) as GatewaySSHConnectionError, and a token
\* check that found the variable unset after a successful connect as
\* GatewaySessionInactiveError; neither kind is reported as the other
C11_GatewayErrorKinds ==
    /\ (ctl.pc = "raised" /\ ctl.op = "connect")
          => ctl.exc = "GatewaySSHConnectionError"
    /\ ctl.exc = "GatewaySSHConnectionError" => ctl.op = "connect"
    /\ (ctl.pc = "raised" /\ ctl.op = "gwVerify" /\ ctl.exc # "CommandTimeoutError")
          => /\ ctl.exc = "GatewaySessionInactiveError"
             /\ chan = "open"
    /\ (ctl.exc = "GatewaySessionInactiveError" /\ ctl.op \in GatewayHopOps)
          => ctl.op = "gwVerify"

C11_Witness ==
    /\ ctl.pc = "raised" /\ ctl.op = "gwVerify"
    /\ ctl.exc = "GatewaySessionInactiveError"
    /\ GATEWAY_SESSION_VAR \notin TopEnv(rem)
    /\ gh.ver.answered /\ gh.ver.ans = 0

\* C12: RecursiveSSHSession.close() always closes the gateway connection:
\* when close() is left by an exception of the exit from the target hop,
\* the gateway channel is closed all the same
C12_CloseAlwaysClosesGateway ==
    (ctl.ctx = "close" /\ ctl.pc = "raised") => chan # "open"

\* C13: an SSHConnection on which close() has been called is never
\* connected again: the gateway instance of the session, once closed by
\* close(), does not hold an open channel any more
C13_ClosedInstanceStaysClosed ==
    gh.closed => chan # "open"

\* C14: inside run a response is not sent again for a responder while the
\* remote side has produced no output since that response was sent
C14_ResponseSentOnce ==
    ctl.pc = "respflush" => ~gh.resent

\* C15: a run call never returns the exit code of a marker that an earlier
\* command left on the channel: it does not return a marker's code while
\* the line it sent has not even been read by the remote side
C15_ResultStemsFromOwnCommand ==
    ~gh.early

\* C16: the CommandTimeoutError of run carries the partial output that was
\* captured on the channel until the timeout
C16_TimeoutCarriesPartialOutput ==
    gh.terr.raised => gh.terr.carried = gh.terr.partial

\* C17: a gateway-level failure (GatewaySSHConnectionError or
\* GatewaySessionInactiveError) at target k stops backup_generator: it is
\* not among the results the generator yields, and no target after k is
\* attempted
C17_GatewayFailureStopsBackups ==
    ctl.drv = "backup_generator" =>
        \A i \in 1..Len(ctl.results) :
            ctl.results[i].error \in {"GatewaySSHConnectionError",
                                      "GatewaySessionInactiveError"}
               => ctl.ti <= i

\* C18: when some element of commands, at whatever position, is neither a
\* TargetCommand nor a TargetBashScript, run_target raises
\* InvalidTargetCommandError before any connection attempt: nothing was
\* sent, no command of the list ran, and the session is as it was
C18_InvalidCommandRejectedUpFront ==
    ((\E i \in 1..Len(ctl.commands) : ctl.commands[i] \notin CommandClasses)
       /\ ctl.ti > 0) =>
        /\ ctl.pc = "raised" /\ ctl.exc = "InvalidTargetCommandError"
        /\ chan = "none" /\ rem = NoRemote
        /\ inq = <<>> /\ outq = <<>>
        /\ gh = InitGh
        /\ ctl.results = <<>> /\ ctl.acc = <<>>

C18_Witness ==
    /\ ctl.pc = "raised" /\ ctl.exc = "InvalidTargetCommandError"
    /\ ctl.commands = <<"TargetCommand", "other">>
    /\ chan = "none" /\ gh.log = <<>>

\* C19: every blocking call ends after a bounded wait, whatever the remote
\* side sends or withholds: the clock of expect and run never passes the
\* timeout by more than one turn of the loop with its responses, and so
\* run_all_targets comes to its end, by a return or by an exception
C19_CallsAndBatchTerminate ==
    /\ [](ctl.t <= TickLimit + 1 + Len(OpResponders([ctl EXCEPT !.op = "ssh"])))
    /\ <>(ctl.pc \in {"done", "raised"})

C19_Witness ==
    /\ ctl.pc = "done"
    /\ Len(ctl.results) = NTargets
    /\ ctl.results[1].error = "CommandTimeoutError"
    /\ ctl.results[2].success

\* C20 as stated: for every delimiter D and exit code c in 0..255, the
\* output of a command formatted by regular_command with D, which contains
\* D:c, is decoded by extract_exit_code to exactly c
C20_RoundTrip ==
    (fmt.pc = "decoded" /\ fmt.marked) => (fmt.found /\ fmt.code = fmt.c)

\* C20, amended: the round trip yields exactly c when nothing in the output
\* before the marker of the command matches D:<digits>
C20_RoundTripFirstMarker ==
    (fmt.pc = "decoded" /\ fmt.marked /\ re_search(fmt.before, fmt.d) = 0)
        => (fmt.found /\ fmt.code = fmt.c)

C20_Witness ==
    /\ fmt.pc = "decoded" /\ fmt.marked
    /\ fmt.c >= 100 /\ fmt.code = fmt.c
    /\ fmt.tty_echo /\ fmt.run_as_root
    /\ re_search(fmt.before, TARGET_SESSION_EXITCODE_DELIMITER) # 0
    /\ fmt.d = DEFAULT_EXITCODE_DELIMITER

\* C21: extract_exit_code applied to an output in which nothing matches
\* <delimiter>:<digits> raises ExitCodeNotFoundError and returns no code
C21_NoMarkerNoCode ==
    (fmt.pc = "decoded" /\ re_search(fmt.output, fmt.d) = 0)
        => (~fmt.found /\ fmt.code = UNSET)

C21_Witness ==
    /\ fmt.pc = "decoded" /\ ~fmt.marked /\ ~fmt.found
    /\ fmt.tty_echo
    /\ re_search(fmt.output, TARGET_SESSION_EXITCODE_DELIMITER) # 0
    /\ fmt.d = DEFAULT_EXITCODE_DELIMITER

\* C22: with the exit code extract_exit_code returns the output cut at the
\* start of the marker: the cleaned output is the prefix of the output that
\* ends right before the marker, it holds no marker, and for a command
\* whose marker is the first one it is all that preceded that marker
C22_CleanOutputIsPrefix ==
    (fmt.pc = "decoded" /\ fmt.found) =>
        LET n == Len(fmt.clean)
        IN  /\ n + 3 <= Len(fmt.output)
            /\ fmt.clean = SubSeq(fmt.output, 1, n)
            /\ fmt.output[n + 1] = fmt.d /\ fmt.output[n + 2] = ":"
            /\ IsDigit(fmt.output[n + 3])
            /\ re_search(fmt.clean, fmt.d) = 0
            /\ (fmt.marked /\ re_search(fmt.before, fmt.d) = 0)
                  => fmt.clean = (IF fmt.tty_echo THEN fmt.line \o <<"\n">> ELSE <<>>)
                                 \o fmt.before

C22_Witness ==
    /\ fmt.pc = "decoded" /\ fmt.found /\ fmt.marked
    /\ fmt.before = <<"x", "\n">> /\ ~fmt.tty_echo
    /\ fmt.clean = <<"x", "\n">> /\ fmt.code = 0
    /\ fmt.after # <<>>

\* C23: SSHConnection.connect returns only after the prompt pattern matched
\* the output of the new shell, and when the pattern has not matched within
\* shell_prompt_timeout connect raises PromptTimeoutError (the cause of the
\* error that establish_gateway_connection then raises)
C23_ConnectWaitsForPrompt ==
    /\ (ctl.op = "gwSet" /\ ctl.pc = "send")
          => (chunks # <<>> /\ MatchesPrompt(chunks[1]))
    /\ (ctl.pc = "raised" /\ ctl.op = "connect" /\ chan = "open")
          => ctl.cause = "PromptTimeoutError"

C23_Witness ==
    /\ ctl.pc = "raised" /\ ctl.op = "connect" /\ chan = "open"
    /\ ctl.cause = "PromptTimeoutError"
    /\ ctl.ti = 2 /\ chunks = <<>>

\* C24: SSHConnection.close() can be called any number of times and in any
\* state (never connected, connected, already closed): it raises nothing
\* and the connection is not open afterwards
C24_CloseIsSafe ==
    [][(ctl.pc = "gwclose" /\ ctl' # ctl) =>
          (chan' # "open" /\ ctl'.exc = ctl.exc /\ ctl'.pc # "gwclose")]_vars

C24_Witness ==
    /\ ctl.pc = "done" /\ chan = "closed"
    /\ gh.closedIn = "closed"
    /\ Len(ctl.results) = NTargets
    /\ ctl.results[1].error = "GatewaySSHConnectionError"

\* C25: when the gateway or a target in service has no secret,
\* backup_generator ends with MachinePasswordMissingError, with no
\* connection ever opened, nothing sent and no result yielded
C25_MissingSecretFailsEarly ==
    (ctl.drv = "backup_generator"
        /\ \E ip \in 0..NTargets : ip \notin ctl.secrets) =>
        /\ chan = "none" /\ gh.conn = 0 /\ gh.log = <<>>
        /\ ctl.results = <<>>
        /\ ctl.pc \in {"build", "raised"}
        /\ ctl.pc = "raised" => ctl.exc = "MachinePasswordMissingError"

C25_Witness ==
    /\ ctl.drv = "backup_generator"
    /\ ctl.secrets = 0..(NTargets - 1)
    /\ ctl.pc = "raised"
    /\ ctl.exc = "MachinePasswordMissingError"
    /\ chan = "none"
    /\ ctl.results = <<>>

\* C26: a Responder whose pattern re.compile rejects is not built, its
\* construction raises ValueError, and a search with a Responder that was
\* built raises nothing
C26_InvalidPatternValueError ==
    /\ (fmt.pc # "new" /\ re_compile(fmt.pattern).exc # "none") =>
            (fmt.pc = "failed" /\ fmt.exc = "ValueError")
    /\ fmt.pc = "searched" => fmt.exc = "none"

\* C27: a script formatted with two arguments that contain spaces runs
\* with exactly these two arguments, unchanged and in their order
C27_ArgumentsDelivered ==
    (fmt.pc = "run"
        /\ \A i \in 1..2 : \E k \in 1..Len(fmt.args[i]) : fmt.args[i][k] = " ") =>
        (fmt.ran /\ fmt.argv = fmt.args)

\* C28: when establish_target_host_connection fails after its check of the
\* gateway token (in the ssh command, in the setting of the target token or
\* in its verification), what it raises is TargetSSHConnectionError
C28_TargetConnectFailureKind ==
    [][(ctl.op \in {"ssh", "tSet", "tVerify"}
            /\ Len(ctl'.results) = Len(ctl.results) + 1) =>
          ctl'.results[Len(ctl'.results)].error = "TargetSSHConnectionError"]_vars

\* C29: run_target, given commands of the two classes, returns a result or
\* raises InvalidTargetCommandError, GatewaySSHConnectionError or
\* GatewaySessionInactiveError, and it does not raise with the nested ssh
\* it opened still running
C29_RunTargetOutcomes ==
    (ctl.drv = "run_all_targets" /\ ctl.ctx = "run_target" /\ ctl.pc = "raised") =>
        /\ ctl.exc \in {"InvalidTargetCommandError", "GatewaySSHConnectionError",
                        "GatewaySessionInactiveError"}
        /\ (ctl.op \in {"tSet", "tVerify", "cmdVerify", "cmd", "exitVerifyT",
                        "exitCmd", "exitVerifyGw"} => rem.nest = <<>>)

\* C30: when run_target returns a result with success = True, the nested
\* ssh has ended and the channel is at the gateway shell; a result made
\* after the exit step failed has success = False
C30_SuccessMeansBackAtGateway ==
    [][(Len(ctl'.results) = Len(ctl.results) + 1) =>
          LET r == ctl'.results[Len(ctl'.results)]
          IN  /\ r.success => (rem'.nest = <<>> /\ ctl.op = "exitVerifyGw")
              /\ ctl.op \in {"exitVerifyT", "exitCmd"} => ~r.success]_vars

C30_Witness ==
    /\ ctl.drv = "run_all_targets"
    /\ ctl.pc = "next"
    /\ ctl.op = "exitVerifyGw"
    /\ Len(ctl.results) = 1
    /\ ctl.results[1].success
    /\ Len(ctl.results[1].outputs) = NCmds
    /\ rem.nest = <<>>

\* C31: the shell that reads an ssh line of establish_target_host_connection
\* is the gateway shell, never the shell of a target reached before
C31_SshOnlyFromGateway ==
    [][(rem.fg = "shell" /\ inq # <<>> /\ Head(inq).k = "ssh"
            /\ inq' = Tail(inq)) => rem.nest = <<>>]_vars

\* C32: run raises CommandTimeoutError only when the output it has read
\* since it sent its command holds no exit marker of that command
C32_MarkerBeforeTimeoutReturns ==
    [][(ctl.pc = "loop" /\ ctl.t > TickLimit /\ ctl'.pc # "loop") =>
          ~HasMarker(Join(chunks), OpLine(ctl).d)]_vars

\* C33: a line the session sends for the target shell ends in the target
\* delimiter __TARGET_EXITCODE, and a line it sends for the gateway shell
\* ends in another one
C33_DisjointDelimiters ==
    /\ (ctl.pc = "loop" /\ ctl.op \in {"tSet", "cmd", "exitCmd"} \cup VerifyTgtOps) =>
            OpLine(ctl).d = TARGET_SESSION_EXITCODE_DELIMITER
    /\ (ctl.pc = "loop" /\ ctl.op \in {"gwSet", "ssh"} \cup VerifyGwOps) =>
            OpLine(ctl).d # TARGET_SESSION_EXITCODE_DELIMITER

\* C34: exit_target_session does not raise TargetSessionInactiveError; it
\* sends exit only to a shell in which the probe of the target token found
\* the token; and a gateway verification of it that fails is raised as
\* GatewaySessionInactiveError
C34_ExitTargetSession ==
    /\ (ctl.pc = "raised" /\ ctl.op \in {"exitVerifyT", "exitCmd", "exitVerifyGw"}) =>
            ctl.exc # "TargetSessionInactiveError"
    /\ (InCall("exitCmd") /\ gh.ver.answered) => gh.ver.ans = 1
    /\ (ctl.pc = "raised" /\ ctl.op = "exitVerifyGw"
            /\ gh.ver.op = "exitVerifyGw" /\ gh.ver.done /\ ~gh.ver.passed) =>
            ctl.exc = "GatewaySessionInactiveError"

\* C35: when run_target connects while the gateway channel is open,
\* establish_gateway_connection makes no transport connect and sends
\* nothing: the channel, the remote side and the record of lines sent are
\* as before, and the next call is the first of
\* establish_target_host_connection
C35_OpenChannelIsKept ==
    [][(ctl.pc = "next" /\ chan = "open" /\ ctl'.ti = ctl.ti + 1
            /\ ctl'.pc \notin {"raised", "next"}) =>
          /\ ctl'.op = "preVerify" /\ ctl'.pc = "send"
          /\ chan' = "open" /\ inq' = inq /\ rem' = rem /\ gh' = gh]_vars

C35_Witness ==
    /\ ctl.ti = 2
    /\ ctl.op = "preVerify"
    /\ ctl.pc = "send"
    /\ chan = "open"
    /\ gh.conn = 1
    /\ Ago(0) # <<"connect", "">>
    /\ GATEWAY_SESSION_VAR \in rem.env

\* C36: the exit code run returns is BREAK_TRIGGERED exactly when the chunk
\* under test at the end of the wait held the break_on pattern and no exit
\* marker; any other code is the number of a marker, never UNSET and never
\* EXIT_CODE_NOT_FOUND; with both in the chunk the marker decides
C36_ReturnedExitCodes ==
    gh.ret.done =>
        /\ gh.ret.code \notin {UNSET, EXIT_CODE_NOT_FOUND}
        /\ (gh.ret.code = BREAK_TRIGGERED) <=> (gh.ret.brk /\ ~gh.ret.marker)
        /\ gh.ret.code # BREAK_TRIGGERED => gh.ret.code \in 0..MaxCode

\* the ssh call ended on a chunk with both the marker and the prompt
C36_Witness ==
    /\ gh.ret.done
    /\ gh.ret.marker
    /\ gh.ret.brk
    /\ gh.ret.code = SshFailCode

\* C37: every result run_target returns has success exactly when it has no
\* error, and the outputs of a failed result are empty or hold one pair for
\* every command of the list: never the pairs of the commands before the
\* one that failed.
C37_FailedOutputsNeverPartial ==
    \A i \in 1..Len(ctl.results) :
        LET r == ctl.results[i]
        IN  /\ r.success <=> r.error = "none"
            /\ ~r.success =>
                  \/ r.outputs = <<>>
                  \/ Len(r.outputs) = Len(ctl.commands)

\* the second command of the list failed after the first had returned its
\* pair
C37_Witness ==
    /\ Len(ctl.commands) = MaxCmds
    /\ Len(ctl.results) = 1
    /\ ~ctl.results[1].success
    /\ ctl.results[1].outputs = <<>>
    /\ ctl.ci = MaxCmds
    /\ Len(ctl.acc) = MaxCmds - 1
    /\ gh.at = <<"cmd">>

\* a call of a user command returns its pair
CmdReturns ==
    /\ ctl.op = "cmd"
    /\ ~gh.ret.done
    /\ gh'.ret.done

\* C38: an exit code is data to run_target.  Whatever exit code the call of
\* a command returns, non-zero and BREAK_TRIGGERED included, its pair is
\* the next one of the list and the next command of the list is started;
\* after the last command the result is built with success = True and one
\* pair for every command, in the order of the commands.
C38_ExitCodesAreData ==
    [][CmdReturns =>
          LET outs == IF ctl.ci < Len(ctl.commands)
                      THEN ctl'.acc ELSE ctl'.result.outputs
          IN  /\ Len(ctl.acc) = ctl.ci - 1
              /\ Len(outs) = ctl.ci
              /\ SubSeq(outs, 1, ctl.ci - 1) = ctl.acc
              /\ outs[ctl.ci][2] = gh'.ret.code
              /\ IF ctl.ci < Len(ctl.commands)
                 THEN /\ ctl'.ci = ctl.ci + 1
                      /\ ctl'.op = "cmdVerify"
                      /\ ctl'.pc = "send"
                 ELSE /\ ctl'.result = TargetExecutionResult(TRUE, outs, "none")
                      /\ Len(outs) = Len(ctl.commands)
                      /\ ctl'.op = "exitVerifyT"]_vars

\* a successful result of two commands: the first ended on its break_on
\* pattern, the second with exit status 1
C38_Witness ==
    /\ Len(ctl.results) = 1
    /\ ctl.results[1].success
    /\ Len(ctl.results[1].outputs) = MaxCmds
    /\ ctl.results[1].outputs[1][2] = BREAK_TRIGGERED
    /\ ctl.results[1].outputs[2][2] = 1

\* backup_generator takes the next target of its for loop
BackupNextTarget ==
    /\ ctl.drv = "backup_generator"
    /\ ctl.pc = "next"
    /\ ctl'.ti = ctl.ti + 1

\* C39: in backup_generator the gateway connection is closed after every
\* failed result before the next target is attempted, so that the next
\* target begins with a transport connect to the gateway; and when the
\* generator is over, finished or left by an exception, no gateway
\* connection is open.
C39_ClosedAfterFailure ==
    /\ [](ctl.drv = "backup_generator" /\ ctl.pc \in {"done", "raised"}
             => chan # "open")
    /\ [][(/\ BackupNextTarget
           /\ ctl.results # <<>>
           /\ ~Last(ctl.results).success)
             => /\ chan # "open"
                /\ Len(ctl.results) = ctl.ti
                /\ ctl'.op = "connect"
                /\ ctl'.pc = "connect"]_vars

\* the second target connects to the gateway anew: a call made for the
\* first one timed out and the open connection was closed after its result
C39_Witness ==
    /\ ctl.drv = "backup_generator"
    /\ ctl.ti = 2
    /\ ctl.op = "connect"
    /\ Len(ctl.results) = 1
    /\ ctl.results[1].error = "CommandTimeoutError"
    /\ gh.closed
    /\ gh.closedIn = "open"
    /\ chan = "closed"
====
